---- MODULE Spec2Model ----
(***************************************************************************)
(* Model of src/nia_driver.py: the NIADriver device session.               *)
(*                                                                         *)
(* The state is the NIADriver instance (`self`) together with the record   *)
(* of the last two calls made on it (what each call was given, what it     *)
(* returned or raised, the notifications it sent to the logger, and the    *)
(* instance as it was when the call began).  In Spec every call is one     *)
(* action: the session has one owner and calls never overlap.  In          *)
(* SpecThreads two threads share a Connected session and a step is one     *)
(* statement of one thread.                                                *)
(*                                                                         *)
(* Sample values are fixed-point: the float x is the integer x * Res, so   *)
(* -1.0 is -Res and 1.0 is Res.  random.random() is the draw r / Res with   *)
(* r in 0 .. Res-1, i.e. a value of [0.0, 1.0).                             *)
(***************************************************************************)
EXTENDS Integers, Sequences, FiniteSets

VARIABLES
    self,   \* the NIADriver instance: connected, sampling_rate, _device_handle
    last,   \* the most recent call on it, and how it ended
    prev,   \* the call before that
    args,   \* the arguments the constructor was called with
    pc,     \* per thread: the line its call is about to execute
    frame,  \* per thread: its call in progress
    overlapped  \* a thread has run while the other was inside its call

vars == <<self, last, prev, args, pc, frame, overlapped>>

----------------------------------------------------------------------------
(* Bounds of the model *)

\* largest num_samples passed to read_signal
MaxSamples == 2
\* read_signal is also called with num_samples down to -MaxNeg
MaxNeg == 1
\* number of distinct values random.random() can draw
Res == 2

\* sampling rates given to the constructor (256 is the default)
SamplingRates == {128, 256}

\* def __init__(self, sampling_rate: int = 256)
DefaultSamplingRate == 256

\* the ways the constructor is called: NIADriver() and NIADriver(r)
ConstructorArgs ==
    {[given |-> FALSE, sampling_rate |-> 0]} \cup
    {[given |-> TRUE, sampling_rate |-> r] : r \in SamplingRates}

----------------------------------------------------------------------------
(* The values of _device_handle: None, or the dict {"mock": True} *)

None == "None"
MockHandle == "{mock: True}"

----------------------------------------------------------------------------
(* A call in progress: the instance, the notifications sent so far, and    *)
(* how the call ended.                                                     *)

NoCall(s) ==
    [op |-> "__init__", num_samples |-> 0, pre |-> s, log |-> <<>>,
     outcome |-> "return", exc |-> "none", returned |-> "None",
     samples |-> <<>>]

Begin(s, name, n) ==
    [self |-> s, op |-> name, num_samples |-> n, pre |-> s, log |-> <<>>,
     outcome |-> "running", exc |-> "none", returned |-> "nothing",
     samples |-> <<>>]

\* self._logger.<level>(msg): the notification, with the instance as it is
\* at the moment the notification is sent; msg is the tuple of the parts of
\* the (f-)string
Emit(f, level, msg) ==
    [f EXCEPT !.log = Append(@, [level |-> level, msg |-> msg,
                                 connected |-> f.self.connected,
                                 device_handle |-> f.self.device_handle])]

\* self._device_handle = h
SetHandle(f, h) == [f EXCEPT !.self.device_handle = h]

\* self.connected = b
SetConnected(f, b) == [f EXCEPT !.self.connected = b]

\* return v   (v names the kind of value; a list is carried in xs)
Return(f, v, xs) ==
    [f EXCEPT !.outcome = "return", !.returned = v, !.samples = xs]

\* raise e(...)
Raise(f, e) == [f EXCEPT !.outcome = "raise", !.exc = e]

\* the record of a finished call
CallRecord(f) ==
    [op |-> f.op, num_samples |-> f.num_samples, pre |-> f.pre,
     log |-> f.log, outcome |-> f.outcome, exc |-> f.exc,
     returned |-> f.returned, samples |-> f.samples]

----------------------------------------------------------------------------
(* NIADriver.__init__ *)

__init__(sampling_rate) ==
    [connected |-> FALSE, sampling_rate |-> sampling_rate,
     device_handle |-> None]

\* NIADriver(...): the parameter takes its default when no argument is given
NIADriver(a) ==
    __init__(IF a.given THEN a.sampling_rate ELSE DefaultSamplingRate)

----------------------------------------------------------------------------
(* NIADriver.connect *)

\* connect_try, had success been logged before the flag was set
connect_try_logs_early(f) ==
    LET f1 == SetHandle(f, MockHandle)
        f2 == Emit(f1, "info", <<"NIA device connected successfully.">>)
        f3 == SetConnected(f2, TRUE)
    IN  Return(f3, "True", <<>>)

\* connect_try, had a second connect() been refused
connect_try_once(f) ==
    IF f.self.connected
    THEN Raise(f, "RuntimeError")
    ELSE LET f1 == SetHandle(f, MockHandle)
             f2 == SetConnected(f1, TRUE)
             f3 == Emit(f2, "info", <<"NIA device connected successfully.">>)
         IN  Return(f3, "True", <<>>)

\* the try block when the acquisition in line 53 succeeds
connect_try(f) ==
    LET f1 == SetHandle(f, MockHandle)
        f2 == SetConnected(f1, TRUE)
        f3 == Emit(f2, "info", <<"NIA device connected successfully.">>)
    IN  Return(f3, "True", <<>>)

\* connect_except, had the handle been stored before the acquisition raised
connect_except_partial(f) ==
    LET f1 == SetHandle(f, MockHandle)
        f2 == Emit(f1, "error", <<"Failed to connect to NIA device: ", "e">>)
    IN  Raise(f2, "RuntimeError")

\* connect_except, had it reset the flag as Python-side cleanup on failure
connect_except_reset(f) ==
    LET f1 == SetConnected(f, FALSE)
        f2 == Emit(f1, "error", <<"Failed to connect to NIA device: ", "e">>)
    IN  Raise(f2, "RuntimeError")

\* the except block: the right-hand side of line 53 raised, so nothing of
\* the try block has been assigned
connect_except(f) ==
    LET f1 == Emit(f, "error", <<"Failed to connect to NIA device: ", "e">>)
    IN  Raise(f1, "RuntimeError")

connect(s, acquire_ok) ==
    LET f0 == Emit(Begin(s, "connect", 0), "info",
                   <<"Attempting to connect to NIA device...">>)
    IN  IF acquire_ok THEN connect_try(f0) ELSE connect_except(f0)

----------------------------------------------------------------------------
(* NIADriver.read_signal *)

\* range_len, had the comprehension run over range(num_samples + 1)
range_len_off_by_one(n) == IF n + 1 > 0 THEN n + 1 ELSE 0

\* len(range(n))
range_len(n) == IF n > 0 THEN n ELSE 0

\* random.uniform(a, b) == a + (b - a) * random(), with random() == r / Res
uniform(a, b, r) == a * Res + (b - a) * r

\* not_connected, had the guard lost its `not`
not_connected_negated(s) == s.connected /\ s.device_handle # None

\* the guard of line 77
not_connected(s) == (~s.connected) \/ s.device_handle = None

\* read_signal, had it released the handle once the batch was read
read_signal_releases(s, num_samples, rnd) ==
    LET f0 == Begin(s, "read_signal", num_samples)
    IN  IF not_connected(s)
        THEN Raise(f0, "ConnectionError")
        ELSE LET f1 == Emit(f0, "debug",
                            <<"Reading ", num_samples, " samples from NIA.">>)
                 xs == [i \in 1..range_len(num_samples) |->
                            uniform(-1, 1, rnd[i])]
                 f2 == SetHandle(f1, None)
             IN  Return(f2, "list", xs)

read_signal(s, num_samples, rnd) ==
    LET f0 == Begin(s, "read_signal", num_samples)
    IN  IF not_connected(s)
        THEN Raise(f0, "ConnectionError")
        ELSE LET f1 == Emit(f0, "debug",
                            <<"Reading ", num_samples, " samples from NIA.">>)
                 xs == [i \in 1..range_len(num_samples) |->
                            uniform(-1, 1, rnd[i])]
             IN  Return(f1, "list", xs)

----------------------------------------------------------------------------
(* NIADriver.disconnect *)

\* disconnect, had it put the instance back to the default rate
disconnect_resets_rate(s) ==
    LET f0 == Begin(s, "disconnect", 0)
    IN  IF s.connected
        THEN LET f1 == Emit(f0, "info", <<"Disconnecting from NIA device...">>)
                 f2 == SetHandle(f1, None)
                 f3 == SetConnected(f2, FALSE)
                 f4 == [f3 EXCEPT !.self.sampling_rate = DefaultSamplingRate]
                 f5 == Emit(f4, "info", <<"NIA device disconnected.">>)
             IN  Return(f5, "None", <<>>)
        ELSE LET f1 == Emit(f0, "warning",
                 <<"Attempted to disconnect an already disconnected device.">>)
             IN  Return(f1, "None", <<>>)

\* disconnect, had line 98 been left out
disconnect_keeps_handle(s) ==
    LET f0 == Begin(s, "disconnect", 0)
    IN  IF s.connected
        THEN LET f1 == Emit(f0, "info", <<"Disconnecting from NIA device...">>)
                 f3 == SetConnected(f1, FALSE)
                 f4 == Emit(f3, "info", <<"NIA device disconnected.">>)
             IN  Return(f4, "None", <<>>)
        ELSE LET f1 == Emit(f0, "warning",
                 <<"Attempted to disconnect an already disconnected device.">>)
             IN  Return(f1, "None", <<>>)

\* disconnect, had the else branch raised instead of warning
disconnect_strict(s) ==
    LET f0 == Begin(s, "disconnect", 0)
    IN  IF s.connected
        THEN LET f1 == Emit(f0, "info", <<"Disconnecting from NIA device...">>)
                 f2 == SetHandle(f1, None)
                 f3 == SetConnected(f2, FALSE)
                 f4 == Emit(f3, "info", <<"NIA device disconnected.">>)
             IN  Return(f4, "None", <<>>)
        ELSE Raise(f0, "RuntimeError")

\* disconnect, had the else branch been a silent pass
disconnect_silent(s) ==
    LET f0 == Begin(s, "disconnect", 0)
    IN  IF s.connected
        THEN LET f1 == Emit(f0, "info", <<"Disconnecting from NIA device...">>)
                 f2 == SetHandle(f1, None)
                 f3 == SetConnected(f2, FALSE)
                 f4 == Emit(f3, "info", <<"NIA device disconnected.">>)
             IN  Return(f4, "None", <<>>)
        ELSE Return(f0, "None", <<>>)

disconnect(s) ==
    LET f0 == Begin(s, "disconnect", 0)
    IN  IF s.connected
        THEN LET f1 == Emit(f0, "info", <<"Disconnecting from NIA device...">>)
                 f2 == SetHandle(f1, None)
                 f3 == SetConnected(f2, FALSE)
                 f4 == Emit(f3, "info", <<"NIA device disconnected.">>)
             IN  Return(f4, "None", <<>>)
        ELSE LET f1 == Emit(f0, "warning",
                 <<"Attempted to disconnect an already disconnected device.">>)
             IN  Return(f1, "None", <<>>)

----------------------------------------------------------------------------
(* The methods statement by statement, for calls made by two threads.  A   *)
(* label names the source line the thread is about to execute.             *)

\* one thread calls connect(), the other disconnect()
Threads == {"connect", "disconnect"}

\* connect_stmt, had line 53 dropped the flag while it took the new handle
connect_stmt_resets(lbl, f, acquire_ok) ==
    CASE lbl = "c48" -> Emit(Begin(f.self, "connect", 0), "info",
                             <<"Attempting to connect to NIA device...">>)
      [] lbl = "c53" -> IF acquire_ok
                        THEN SetConnected(SetHandle(f, MockHandle), FALSE)
                        ELSE f
      [] lbl = "c54" -> SetConnected(f, TRUE)
      [] lbl = "c55" -> Emit(f, "info",
                             <<"NIA device connected successfully.">>)
      [] lbl = "c56" -> Return(f, "True", <<>>)
      [] lbl = "c58" -> Emit(f, "error",
                             <<"Failed to connect to NIA device: ", "e">>)
      [] lbl = "c59" -> Raise(f, "RuntimeError")

\* the effect of the statement of connect() at lbl
connect_stmt(lbl, f, acquire_ok) ==
    CASE lbl = "c48" -> Emit(Begin(f.self, "connect", 0), "info",
                             <<"Attempting to connect to NIA device...">>)
      [] lbl = "c53" -> IF acquire_ok THEN SetHandle(f, MockHandle) ELSE f
      [] lbl = "c54" -> SetConnected(f, TRUE)
      [] lbl = "c55" -> Emit(f, "info",
                             <<"NIA device connected successfully.">>)
      [] lbl = "c56" -> Return(f, "True", <<>>)
      [] lbl = "c58" -> Emit(f, "error",
                             <<"Failed to connect to NIA device: ", "e">>)
      [] lbl = "c59" -> Raise(f, "RuntimeError")

\* the statement of connect() that follows the one at lbl
connect_goto(lbl, acquire_ok) ==
    CASE lbl = "c48" -> "c53"
      [] lbl = "c53" -> IF acquire_ok THEN "c54" ELSE "c58"
      [] lbl = "c54" -> "c55"
      [] lbl = "c55" -> "c56"
      [] lbl = "c56" -> "done"
      [] lbl = "c58" -> "c59"
      [] lbl = "c59" -> "done"

\* disconnect_stmt, had line 98 been left out
disconnect_stmt_keeps_handle(lbl, f) ==
    CASE lbl = "d95"  -> Begin(f.self, "disconnect", 0)
      [] lbl = "d96"  -> Emit(f, "info", <<"Disconnecting from NIA device...">>)
      [] lbl = "d98"  -> f
      [] lbl = "d99"  -> SetConnected(f, FALSE)
      [] lbl = "d100" -> Return(Emit(f, "info", <<"NIA device disconnected.">>),
                                "None", <<>>)
      [] lbl = "d102" -> Return(Emit(f, "warning",
              <<"Attempted to disconnect an already disconnected device.">>),
                                "None", <<>>)

\* the effect of the statement of disconnect() at lbl; line 95 only reads,
\* and the method returns None after its last logger call
disconnect_stmt(lbl, f) ==
    CASE lbl = "d95"  -> Begin(f.self, "disconnect", 0)
      [] lbl = "d96"  -> Emit(f, "info", <<"Disconnecting from NIA device...">>)
      [] lbl = "d98"  -> SetHandle(f, None)
      [] lbl = "d99"  -> SetConnected(f, FALSE)
      [] lbl = "d100" -> Return(Emit(f, "info", <<"NIA device disconnected.">>),
                                "None", <<>>)
      [] lbl = "d102" -> Return(Emit(f, "warning",
              <<"Attempted to disconnect an already disconnected device.">>),
                                "None", <<>>)

\* the statement of disconnect() that follows the one at lbl
disconnect_goto(lbl, f) ==
    CASE lbl = "d95"  -> IF f.self.connected THEN "d96" ELSE "d102"
      [] lbl = "d96"  -> "d98"
      [] lbl = "d98"  -> "d99"
      [] lbl = "d99"  -> "d100"
      [] lbl = "d100" -> "done"
      [] lbl = "d102" -> "done"

\* the first statement of each method
Entry(t) == IF t = "connect" THEN "c48" ELSE "d95"

\* thread t has entered its call and not left it
InCall(t) == pc[t] \notin {Entry(t), "done", "idle"}

\* the frame of thread t, seeing the instance as it is now
Frame(t) == [frame[t] EXCEPT !.self = self]

----------------------------------------------------------------------------
(* The session: construction, then any sequence of calls *)

Finish(f) ==
    /\ self' = f.self
    /\ last' = CallRecord(f)
    /\ prev' = last
    /\ UNCHANGED <<args, pc, frame, overlapped>>

Init ==
    \E a \in ConstructorArgs :
        /\ args = a
        /\ self = NIADriver(a)
        /\ last = NoCall(self)
        /\ prev = NoCall(self)
        /\ pc = [t \in Threads |-> "idle"]
        /\ frame = [t \in Threads |-> Begin(self, t, 0)]
        /\ overlapped = FALSE

Connect ==
    \E acquire_ok \in BOOLEAN : Finish(connect(self, acquire_ok))

ReadSignal ==
    \E n \in (0 - MaxNeg)..MaxSamples :
        \E rnd \in [1..range_len(n) -> 0..(Res - 1)] :
            Finish(read_signal(self, n, rnd))

Disconnect == Finish(disconnect(self))

Next == Connect \/ ReadSignal \/ Disconnect

Spec == Init /\ [][Next]_vars

----------------------------------------------------------------------------
(* Two threads on one Connected session, with no lock: one calls connect() *)
(* and the other disconnect(); a step is one statement of one thread.      *)

InitThreads ==
    \E a \in ConstructorArgs :
        LET f == connect(NIADriver(a), TRUE)
        IN  /\ args = a
            /\ self = f.self
            /\ last = CallRecord(f)
            /\ prev = NoCall(NIADriver(a))
            /\ pc = [t \in Threads |-> Entry(t)]
            /\ frame = [t \in Threads |-> Begin(self, t, 0)]
            /\ overlapped = FALSE

ConnectStep ==
    /\ pc["connect"] \notin {"done", "idle"}
    /\ \E acquire_ok \in BOOLEAN :
          LET g == connect_stmt(pc["connect"], Frame("connect"), acquire_ok)
          IN  /\ self' = g.self
              /\ frame' = [frame EXCEPT !["connect"] = g]
              /\ pc' = [pc EXCEPT !["connect"] =
                            connect_goto(pc["connect"], acquire_ok)]
    /\ overlapped' = (overlapped \/ InCall("disconnect"))
    /\ UNCHANGED <<last, prev, args>>

DisconnectStep ==
    /\ pc["disconnect"] \notin {"done", "idle"}
    /\ LET g == disconnect_stmt(pc["disconnect"], Frame("disconnect"))
       IN  /\ self' = g.self
           /\ frame' = [frame EXCEPT !["disconnect"] = g]
           /\ pc' = [pc EXCEPT !["disconnect"] =
                         disconnect_goto(pc["disconnect"], Frame("disconnect"))]
    /\ overlapped' = (overlapped \/ InCall("connect"))
    /\ UNCHANGED <<last, prev, args>>

NextThreads == ConnectStep \/ DisconnectStep

SpecThreads == InitThreads /\ [][NextThreads]_vars

----------------------------------------------------------------------------
(* Properties *)

Disconnected(s) == ~s.connected
Connected(s) == s.connected

\* a connect() that failed on a Disconnected session
FailedConnect(c) ==
    c.op = "connect" /\ c.outcome = "raise" /\ Disconnected(c.pre)

\* C1: between calls, whatever the calls were and however they ended,
\* connected is true exactly when _device_handle is not None.
C1_ConnectedIffHandle ==
    self.connected <=> (self.device_handle # None)

\* C1 witness: a call has just failed on a session that holds a handle.
C1_Witness ==
    /\ last.outcome = "raise"
    /\ self.connected
    /\ self.device_handle # None

\* C2: read_signal(n) on a Disconnected session raises ConnectionError
\* (NotConnected) for every n and returns no samples.
C2_ReadDisconnectedFails ==
    (last.op = "read_signal" /\ Disconnected(last.pre)) =>
        /\ last.outcome = "raise"
        /\ last.exc = "ConnectionError"
        /\ last.returned = "nothing"
        /\ last.samples = <<>>

\* C2 witness: read_signal was called right after a disconnect() that closed
\* a connected session.
C2_Witness ==
    /\ last.op = "read_signal"
    /\ Disconnected(last.pre)
    /\ last.num_samples > 0
    /\ prev.op = "disconnect"
    /\ Connected(prev.pre)

\* C3: a connect() that fails on a Disconnected session raises RuntimeError
\* (ConnectionFailure) and leaves the instance as it was: connected False,
\* _device_handle None; a read_signal that follows raises ConnectionError.
C3_FailedConnectMutatesNothing ==
    /\ FailedConnect(last) =>
          /\ last.exc = "RuntimeError"
          /\ self = last.pre
          /\ ~self.connected
          /\ self.device_handle = None
    /\ (FailedConnect(prev) /\ last.op = "read_signal") =>
          /\ last.outcome = "raise"
          /\ last.exc = "ConnectionError"

\* C3 witness: a read_signal has followed a failed connect().
C3_Witness ==
    /\ FailedConnect(prev)
    /\ last.op = "read_signal"
    /\ last.outcome = "raise"

\* C4: after a connect() that returns, connected is True; after any
\* disconnect(), connected is False; disconnect() never raises, so two in a
\* row both complete.
C4_ConnectSetsDisconnectClears ==
    /\ (last.op = "connect" /\ last.outcome = "return") => self.connected
    /\ last.op = "disconnect" => (~self.connected /\ last.outcome = "return")
    /\ (prev.op = "disconnect" /\ last.op = "disconnect") =>
          (prev.outcome = "return" /\ last.outcome = "return")

\* C4 witness: two disconnect() calls in a row, the first on a connected
\* session.
C4_Witness ==
    /\ prev.op = "disconnect"
    /\ Connected(prev.pre)
    /\ last.op = "disconnect"
    /\ ~self.connected

\* C5: read_signal(n) with n >= 0 on a Connected session returns a list of
\* exactly n values, each in [-1.0, 1.0]; for n = 0 the list is empty.
C5_ReadReturnsNSamplesInRange ==
    (last.op = "read_signal" /\ Connected(last.pre)
        /\ last.num_samples >= 0) =>
        /\ last.outcome = "return"
        /\ last.returned = "list"
        /\ Len(last.samples) = last.num_samples
        /\ \A i \in 1..Len(last.samples) :
              (0 - Res) <= last.samples[i] /\ last.samples[i] <= Res
        /\ last.num_samples = 0 => last.samples = <<>>

\* C5 witness: a read of the largest batch returned, with two different
\* values in it.
C5_Witness ==
    /\ last.op = "read_signal"
    /\ Connected(last.pre)
    /\ last.num_samples = MaxSamples
    /\ last.outcome = "return"
    /\ \E i, j \in 1..Len(last.samples) : last.samples[i] # last.samples[j]

\* C6: a read_signal step, returning or raising, leaves connected,
\* _device_handle and sampling_rate as they were.
C6_ReadSignalFrame ==
    [][last'.op = "read_signal" => self' = self]_vars

\* C6 witness: a read_signal that returned a non-empty batch on a session
\* connected by the call before it.
C6_Witness ==
    /\ prev.op = "connect"
    /\ prev.outcome = "return"
    /\ last.op = "read_signal"
    /\ last.outcome = "return"
    /\ Len(last.samples) > 0
    /\ self.connected

\* C7: a step that takes connected from False to True is a connect() call,
\* and a step that takes it from True to False is a disconnect() call.
C7_OnlyConnectDisconnectToggle ==
    [][ /\ (~self.connected /\ self'.connected) => last'.op = "connect"
        /\ (self.connected /\ ~self'.connected) => last'.op = "disconnect"
      ]_vars

\* C7 witness: the session went Disconnected -> Connected -> Disconnected.
C7_Witness ==
    /\ prev.op = "connect"
    /\ Disconnected(prev.pre)
    /\ Connected(last.pre)
    /\ last.op = "disconnect"
    /\ ~self.connected

\* C8: disconnect() on a Disconnected session changes nothing, sends exactly
\* one notification, of level warning, and returns.
C8_DisconnectWhenDisconnected ==
    (last.op = "disconnect" /\ Disconnected(last.pre)) =>
        /\ self = last.pre
        /\ ~self.connected
        /\ self.device_handle = None
        /\ Len(last.log) = 1
        /\ last.log[1].level = "warning"
        /\ last.outcome = "return"

\* C8 witness: disconnect() was the very first call on a fresh session.
C8_Witness ==
    /\ prev.op = "__init__"
    /\ last.op = "disconnect"
    /\ Disconnected(last.pre)

\* C9: read_signal(n) with n < 0 on a Connected session raises an
\* InvalidArgument error and returns no samples.
C9_NegativeRejected ==
    (last.op = "read_signal" /\ Connected(last.pre)
        /\ last.num_samples < 0) =>
        /\ last.outcome = "raise"
        /\ last.exc = "InvalidArgument"
        /\ last.returned = "nothing"

\* C10: connect() always returns a boolean: True if the connection
\* succeeded, False otherwise.
C10_ConnectReturnsBoolean ==
    last.op = "connect" =>
        /\ last.outcome = "return"
        /\ last.returned \in {"True", "False"}
        /\ (last.returned = "True") <=> (self.device_handle # None
                                          /\ self.connected)

\* the levels of the notifications of a call, in order
Levels(c) == [i \in 1..Len(c.log) |-> c.log[i].level]

\* C12: the notifications of a call, in order, are fixed by the operation and
\* the state it was called in.  connect() that returns: info while the
\* instance is still as the call found it, then info once connected is set.
\* connect() that raises: the error-level notification has been sent.
\* disconnect() on a Connected session: info while the handle is still held,
\* then info after the release.  read_signal that returns: one debug
\* notification carrying num_samples.  read_signal that raises: none.
C12_NotificationsPerCall ==
    /\ (last.op = "connect" /\ last.outcome = "return") =>
          /\ Levels(last) = <<"info", "info">>
          /\ last.log[1].connected = last.pre.connected
          /\ last.log[1].device_handle = last.pre.device_handle
          /\ last.log[2].connected
          /\ last.log[2].device_handle # None
    /\ (last.op = "connect" /\ last.outcome = "raise") =>
          /\ Levels(last) = <<"info", "error">>
    /\ (last.op = "disconnect" /\ Connected(last.pre)) =>
          /\ Levels(last) = <<"info", "info">>
          /\ last.log[1].connected
          /\ last.log[1].device_handle # None
          /\ ~last.log[2].connected
          /\ last.log[2].device_handle = None
    /\ (last.op = "read_signal" /\ last.outcome = "return") =>
          /\ Levels(last) = <<"debug">>
          /\ last.log[1].msg[2] = last.num_samples
    /\ (last.op = "read_signal" /\ last.outcome = "raise") =>
          /\ last.log = <<>>

\* C12 witness: a failed connect() came after a disconnect() that closed a
\* connected session.
C12_Witness ==
    /\ prev.op = "disconnect"
    /\ Connected(prev.pre)
    /\ Len(prev.log) = 2
    /\ last.op = "connect"
    /\ last.outcome = "raise"
    /\ Len(last.log) = 2

\* C14: in every state the session can be in, a connect() whose acquisition
\* does not fail returns with the session Connected, and read_signal then
\* returns samples; a connect() that returned has left the session Connected.
C14_AlwaysReconnectable ==
    /\ LET f == connect(self, TRUE)
       IN  /\ f.outcome = "return"
           /\ Connected(f.self)
           /\ \A n \in 0..MaxSamples :
                 \A rnd \in [1..n -> 0..(Res - 1)] :
                    LET g == read_signal(f.self, n, rnd)
                    IN  g.outcome = "return" /\ Len(g.samples) = n
    /\ (last.op = "connect" /\ last.outcome = "return") => Connected(self)
    /\ (prev.op = "connect" /\ prev.outcome = "return"
          /\ last.op = "read_signal") => last.outcome = "return"

\* C14 witness: the session has been connected, disconnected and connected
\* again.
C14_Witness ==
    /\ prev.op = "disconnect"
    /\ Connected(prev.pre)
    /\ last.op = "connect"
    /\ last.outcome = "return"
    /\ Connected(self)

\* C15: sampling_rate is the value given to the constructor, or 256 when
\* none was given, after any sequence of calls.
C15_SamplingRateFixed ==
    /\ args.given => self.sampling_rate = args.sampling_rate
    /\ ~args.given => self.sampling_rate = 256

\* C15 witness: a session built with a rate other than the default has been
\* connected and disconnected, and a call on it has failed.
C15_Witness ==
    /\ args.given
    /\ args.sampling_rate # 256
    /\ prev.op = "disconnect"
    /\ Connected(prev.pre)
    /\ last.outcome = "raise"

\* both threads have left their calls
BothReturned == pc["connect"] = "done" /\ pc["disconnect"] = "done"

\* C11: with a connect() and a disconnect() issued by two threads on a
\* Connected session, the invariant (connected iff _device_handle is not
\* None) holds once both have returned whenever the calls did not overlap;
\* it is the overlapping runs that can end with the invariant broken (the
\* witness).
C11_ExclusiveOwnerPreservesInvariant ==
    (BothReturned /\ ~overlapped) =>
        (self.connected <=> (self.device_handle # None))

\* C11 witness: both calls overlapped, both have returned, and the session
\* is left with a handle while connected is False, or the reverse.
C11_Witness ==
    /\ BothReturned
    /\ overlapped
    /\ frame["connect"].outcome = "return"
    /\ frame["disconnect"].outcome = "return"
    /\ ~(self.connected <=> (self.device_handle # None))

\* the connect() thread runs alone: disconnect() has not been entered
ConnectAlone == pc["disconnect"] = "d95"

\* C13 as stated: connect() on a Connected session never fails; it returns
\* True and the session is Connected with a handle throughout.
C13_ReconnectNeverFails ==
    ConnectAlone =>
        /\ self.connected
        /\ self.device_handle # None
        /\ pc["connect"] = "done" =>
              /\ frame["connect"].outcome = "return"
              /\ frame["connect"].returned = "True"

\* C13 amended: connect() on a Connected session leaves it Connected with a
\* handle after every statement, so it never passes through Disconnected;
\* it returns True when the acquisition succeeds and raises RuntimeError
\* when the acquisition raises, and in both cases a read_signal that
\* follows returns its samples.
C13_ReconnectStaysConnected ==
    ConnectAlone =>
        /\ self.connected
        /\ self.device_handle # None
        /\ pc["connect"] \in {"c54", "c55", "c56"} =>
              frame["connect"].outcome = "running"
        /\ (pc["connect"] = "done" /\ frame["connect"].outcome = "return") =>
              /\ frame["connect"].returned = "True"
              /\ Levels(frame["connect"]) = <<"info", "info">>
        /\ (pc["connect"] = "done" /\ frame["connect"].outcome # "return") =>
              /\ frame["connect"].outcome = "raise"
              /\ frame["connect"].exc = "RuntimeError"
              /\ Levels(frame["connect"]) = <<"info", "error">>
        /\ pc["connect"] = "done" =>
              \A n \in 0..MaxSamples :
                 \A rnd \in [1..n -> 0..(Res - 1)] :
                    LET g == read_signal(self, n, rnd)
                    IN  g.outcome = "return" /\ Len(g.samples) = n

\* C13 witness: connect() has returned True on the session that was
\* already Connected.
C13_Witness ==
    /\ ConnectAlone
    /\ pc["connect"] = "done"
    /\ frame["connect"].pre.connected
    /\ frame["connect"].outcome = "return"
    /\ self.connected

====
